---- MODULE Spec2Model ----
(***************************************************************************)
(* shop.h v0.2.0: a short-option command line parser.                      *)
(*                                                                         *)
(* A C string is a sequence of one-character strings (the terminating NUL  *)
(* is the end of the sequence).  A pointer to a descriptor is its 1-based  *)
(* position in shop__options.items, and 0 is NULL.  argv[1] is C's argv[0].*)
(***************************************************************************)
EXTENDS Integers, Sequences, FiniteSets, TLC

VARIABLES
    options,   \* shop__options: [items: Seq(shop_option_t), len: Nat, cap: Nat]
    map,       \* shop__map: character -> 1-based position in options.items, 0 is absent
    status,    \* the process: "running", "exited" (exit(EXIT_FAILURE)), or after a NULL dereference
               \* "crashed" or "undefined"
    diag,      \* what the process wrote to stderr, "" when nothing
    argv,      \* the process's argument vector
    call,      \* the last API call, its arguments, what it returned and the memory it had
    dst,       \* the caller's destination object handed to shop_sget (a new one after any other call)
    fe,        \* the shop_foreach loop of the caller: [active, name, idx, count]
    runs       \* per argv form, the registry a process given that form ends with

vars == <<options, map, status, diag, argv, call, dst, fe, runs>>

----------------------------------------------------------------------------
(* Bounds of the model *)

\* shop_track: entries of argv after the program name
MaxArgs == 2
\* shop_track: characters after the '-' of an entry
MaxRun == 2
\* shop_set: characters of the option string
MaxSpecLen == 3
\* descriptors in shop__options (shop_set called again without shop_free appends)
MaxOptions == 2
\* shop_foreach / shop_sget: indexes tried run from 0 to the length plus this
MaxIdx == 2
\* values collected in the registry in one session
MaxValues == 2
\* argv forms of one option group: flag-only options before the argument-taking one
MaxFlags == 2

----------------------------------------------------------------------------
(* Characters and strings *)

NUL == "NUL"
NameChars == {"n", "o"}
TokChars == {"-", "n", "o", "1"}
SpecChars == NameChars \cup {":", " "}
AllChars == TokChars \cup SpecChars

SeqsUpTo(S, n) == UNION {[1..k -> S] : k \in 0..n}

\* C's s + k: the string from 0-based offset k on
Suffix(s, k) == SubSeq(s, k + 1, Len(s))

\* C's s[k], 0-based, the terminator included
CharAt(s, k) == IF k < Len(s) THEN s[k + 1] ELSE NUL

----------------------------------------------------------------------------
(* The registry: shop__options and shop__map *)

\* the NULL of a const char *: no string
NULLP == <<"(null)">>

\* realloc's first capacity in shop__push
InitCap == 8

\* the static initialisers "= {0}" of shop__map and shop__options
EmptyMap == [c \in AllChars |-> 0]
EmptyRegistry == [options |-> [items |-> <<>>, len |-> 0, cap |-> 0], map |-> EmptyMap]

\* shop__push's capacity after pushing onto a vector of length len
GrowCap(len, cap) ==
    IF len + 1 > cap THEN (IF cap < InitCap THEN InitCap ELSE 2 * cap) ELSE cap

\* shop__push's test "(vec)->len + 1 > (vec)->cap": the push calls realloc
Grows(len, cap) == len + 1 > cap

\* SHOP_ASSERT((vec)->items, "out of memory")
MsgOom == "out of memory"

\* The registry as shop_set and shop_track work on it, with the allocator:
\* mem is the number of realloc calls that succeed from here on (the one
\* after them returns NULL), oom is set when SHOP_ASSERT has ended the
\* process with "out of memory".
WithMem(R, mem) == [options |-> R.options, map |-> R.map, mem |-> mem, oom |-> FALSE]

\* A vector's items is the array items points to; the NULL of items is the
\* empty sequence, and len is the vector's own count of its elements.

\* shop__push(&shop__options, opt): when realloc fails the capacity is
\* already the new one, items is realloc's NULL and len is what it was
PushOption(R, opt) ==
    LET len == R.options.len
        cap == R.options.cap
    IN  IF Grows(len, cap) /\ R.mem = 0
        THEN [R EXCEPT !.options = [items |-> <<>>, len |-> len, cap |-> GrowCap(len, cap)],
                       !.oom = TRUE]
        ELSE [R EXCEPT !.options = [items |-> Append(R.options.items, opt),
                                    len |-> len + 1,
                                    cap |-> GrowCap(len, cap)],
                       !.mem = IF Grows(len, cap) THEN @ - 1 ELSE @]

\* a variant of PushItem: the new value goes in front of the collected ones
PushItem_front(R, p, item) ==
    LET len == R.options.items[p].len
        cap == R.options.items[p].cap
    IN  IF Grows(len, cap) /\ R.mem = 0
        THEN [R EXCEPT !.options.items[p] =
                           [@ EXCEPT !.items = <<>>, !.cap = GrowCap(len, cap)],
                       !.oom = TRUE]
        ELSE [R EXCEPT !.options.items[p] =
                           [@ EXCEPT !.items = <<item>> \o @, !.len = len + 1,
                                     !.cap = GrowCap(len, cap)],
                       !.mem = IF Grows(len, cap) THEN @ - 1 ELSE @]

\* shop__push(opt, item) for the descriptor at position p: when realloc
\* fails the capacity is already the new one, items is realloc's NULL and
\* len is what it was
PushItem(R, p, item) ==
    LET len == R.options.items[p].len
        cap == R.options.items[p].cap
    IN  IF Grows(len, cap) /\ R.mem = 0
        THEN [R EXCEPT !.options.items[p] =
                           [@ EXCEPT !.items = <<>>, !.cap = GrowCap(len, cap)],
                       !.oom = TRUE]
        ELSE [R EXCEPT !.options.items[p] =
                           [@ EXCEPT !.items = Append(@, item), !.len = len + 1,
                                     !.cap = GrowCap(len, cap)],
                       !.mem = IF Grows(len, cap) THEN @ - 1 ELSE @]

\* static shop__find: the descriptor's position, 0 for NULL
shop__find(R, name) == R.map[name]

----------------------------------------------------------------------------
(* shop_set *)

Delims == {":", " "}

\* strtok's skip of leading delimiters: offset of the first non-delimiter from k
RECURSIVE SkipDelims(_, _)
SkipDelims(s, k) ==
    IF CharAt(s, k) \in Delims THEN SkipDelims(s, k + 1) ELSE k

\* strtok's scan to the end of the token starting at k
RECURSIVE TokenEnd(_, _)
TokenEnd(s, k) ==
    IF CharAt(s, k) = NUL \/ CharAt(s, k) \in Delims THEN k ELSE TokenEnd(s, k + 1)

\* every token strtok(p, ": ") returns for the string, in order, scanning from k
RECURSIVE StrtokFrom(_, _)
StrtokFrom(s, k) ==
    LET b == SkipDelims(s, k)
        e == TokenEnd(s, b)
    IN  IF CharAt(s, b) = NUL THEN <<>>
        ELSE <<SubSeq(s, b + 1, e)>> \o StrtokFrom(s, e + 1)

Strtok(s) == StrtokFrom(s, 0)

\* the take_arg a token's i-th character (0-based) gets in the for loop
LastOfToken(token, i) == (i = Len(token) - 1)

\* the for loop over one token, from 0-based i; it ends where shop__push
\* ends the process
RECURSIVE SetToken(_, _, _)
SetToken(R, token, i) ==
    IF i >= Len(token) THEN R
    ELSE LET opt == [name |-> token[i + 1], info |-> NULLP, scan_fmt |-> NULLP,
                     used |-> FALSE, take_arg |-> LastOfToken(token, i),
                     items |-> <<>>, len |-> 0, cap |-> 0]
             R1 == PushOption(R, opt)
             R2 == [R1 EXCEPT !.map[opt.name] = R1.options.len % 256]
         IN  IF R1.oom THEN R1 ELSE SetToken(R2, token, i + 1)

\* the while loop over the tokens
RECURSIVE SetTokens(_, _)
SetTokens(R, tokens) ==
    IF tokens = <<>> \/ R.oom THEN R
    ELSE SetTokens(SetToken(R, Head(tokens), 0), Tail(tokens))

\* "check if the last option requires argument"
Retrofit(R, opt_str) ==
    IF opt_str[Len(opt_str)] # ":"
    THEN [R EXCEPT !.options.items[R.options.len].take_arg = FALSE]
    ELSE R

\* shop_set(opt_str), for a non-empty string that names an option: the
\* registry when the function returns, or when shop__push ends the process
shop_set(R, opt_str) ==
    LET T == SetTokens(R, Strtok(opt_str))
    IN  IF T.oom THEN T ELSE Retrofit(T, opt_str)

\* a variant of shop_free: shop__map is not cleared
shop_free_keeps_map(R) == [options |-> EmptyRegistry.options, map |-> R.map]

\* shop_free()
shop_free(R) == EmptyRegistry

----------------------------------------------------------------------------
(* shop_desc, shop_use, shop_len *)

\* What a store through, or a load from, the NULL pointer shop__find returned
\* does to the process.  The behaviour is undefined: the process is killed by
\* a signal ("crashed"), or a build that assumed the pointer valid carries on
\* with memory it does not own ("undefined").  No build writes a diagnostic
\* or calls exit there.
NullDeref == {"crashed", "undefined"}

NoDiag == [msg |-> "", arg |-> <<>>]
OomDiag == [msg |-> MsgOom, arg |-> <<>>]

\* shop_desc(name, scan_fmt, info): the registry after the two stores
shop_desc(R, name, scan_fmt, info) ==
    LET p == shop__find(R, name)
    IN  [R EXCEPT !.options.items[p] = [@ EXCEPT !.scan_fmt = scan_fmt, !.info = info]]

\* shop_use(name): the descriptor's position, 0 for NULL
shop_use(R, name) ==
    LET p == shop__find(R, name)
    IN  IF p # 0 /\ R.options.items[p].used THEN p ELSE 0

\* shop_len(name), for a registered name
shop_len(R, name) == R.options.items[shop__find(R, name)].len

----------------------------------------------------------------------------
(* shop_track *)

MsgUnknown == "unknown option: '-%c'"
MsgNoArg == "option '%s' require argument but not supply"

\* a variant of AttachedValue: "arg + j", the option character kept in the value
AttachedValue_from_name(arg, j) == Suffix(arg, j)

\* "arg + j + 1": the text after the option at 0-based j
AttachedValue(arg, j) == Suffix(arg, j + 1)

\* opt->used = true
MarkUsed(R, p) == [R EXCEPT !.options.items[p].used = TRUE]

\* The first inner loop, "handle current option (may combined, -rhp)", from
\* 0-based j.  out: "end" the loop ran off the entry, "attached" the rest of the
\* entry was pushed, "pending" has_param_in_next_arg, "unknown" SHOP_ASSERT
\* failed, "oom" shop__push ended the process.
RECURSIVE ScanOptions(_, _, _)
ScanOptions(R, arg, j) ==
    IF CharAt(arg, j) = NUL THEN [R |-> R, out |-> "end", name |-> NUL]
    ELSE LET name == CharAt(arg, j)
             p == shop__find(R, name)
         IN  IF p = 0 THEN [R |-> R, out |-> "unknown", name |-> name]
             ELSE LET R1 == MarkUsed(R, p)
                  IN  IF R1.options.items[p].take_arg
                      THEN IF CharAt(arg, j + 1) # NUL
                           THEN LET R2 == PushItem(R1, p, AttachedValue(arg, j))
                                IN  [R |-> R2, name |-> name,
                                     out |-> IF R2.oom THEN "oom" ELSE "attached"]
                           ELSE [R |-> R1, out |-> "pending", name |-> name]
                      ELSE ScanOptions(R1, arg, j + 1)

\* a variant of FindTaker: the first registered option of the entry
RECURSIVE FindTaker_first_registered(_, _, _)
FindTaker_first_registered(R, arg, j) ==
    IF CharAt(arg, j) = NUL THEN 0
    ELSE LET p == shop__find(R, CharAt(arg, j))
         IN  IF p # 0 THEN p
             ELSE FindTaker_first_registered(R, arg, j + 1)

\* The second inner loop, "find the option which need this argument", from
\* 0-based j: the position of the descriptor pushed to, 0 when the loop ends
\* without a push.
RECURSIVE FindTaker(_, _, _)
FindTaker(R, arg, j) ==
    IF CharAt(arg, j) = NUL THEN 0
    ELSE LET p == shop__find(R, CharAt(arg, j))
         IN  IF p # 0 /\ R.options.items[p].take_arg THEN p
             ELSE FindTaker(R, arg, j + 1)

\* "handle next option argument if it is": push argv[i] to the option found
PushNext(R, arg, value) ==
    LET p == FindTaker(R, arg, 1)
    IN  IF p # 0 THEN PushItem(R, p, value) ELSE R

\* a variant of IsOptionArg: no entry is skipped
IsOptionArg_no_skip(arg) == TRUE

\* a variant of AfterValue: the entry pushed as a value is scanned next
AfterValue_rescan(i) == i + 1

\* "skip non-option arg"
IsOptionArg(arg) == CharAt(arg, 0) = "-"

\* the entry the outer loop goes on with after an entry at i whose value was
\* the next entry: "i++; // skip current option" and the loop's own i++
AfterValue(i) == i + 2

\* The outer loop from C index i (argc is Len(av), av[i + 1] is C's argv[i]).
\* The result is the registry when the function returns or the process exits.
RECURSIVE TrackFrom(_, _, _)
TrackFrom(R, av, i) ==
    IF i >= Len(av) THEN [R |-> R, status |-> "running", diag |-> NoDiag]
    ELSE LET arg == av[i + 1]
         IN  IF ~IsOptionArg(arg) THEN TrackFrom(R, av, i + 1)
             ELSE LET s == ScanOptions(R, arg, 1)
                  IN  CASE s.out = "unknown" ->
                             [R |-> s.R, status |-> "exited",
                              diag |-> [msg |-> MsgUnknown, arg |-> <<s.name>>]]
                        [] s.out = "oom" ->
                             [R |-> s.R, status |-> "exited", diag |-> OomDiag]
                        [] s.out = "pending" ->
                             IF ~(i + 1 < Len(av))
                             THEN [R |-> s.R, status |-> "exited",
                                   diag |-> [msg |-> MsgNoArg, arg |-> arg]]
                             ELSE LET R2 == PushNext(s.R, arg, av[i + 2])
                                  IN  IF R2.oom
                                      THEN [R |-> R2, status |-> "exited", diag |-> OomDiag]
                                      ELSE TrackFrom(R2, av, AfterValue(i))
                        [] OTHER -> TrackFrom(s.R, av, i + 1)

\* shop_track(argc, argv)
shop_track(R, av) == TrackFrom(R, av, 1)

----------------------------------------------------------------------------
(* shop_sget *)

Digits == {"0", "1", "2", "3", "4", "5", "6", "7", "8", "9"}
DigitVal(c) == CHOOSE d \in 0..9 : <<"0", "1", "2", "3", "4", "5", "6", "7", "8", "9">>[d + 1] = c

\* the decimal digits read from 0-based k on: [n digits read, v their value]
RECURSIVE ScanDigits(_, _, _, _)
ScanDigits(s, k, n, v) ==
    IF CharAt(s, k) \in Digits
    THEN ScanDigits(s, k + 1, n + 1, 10 * v + DigitVal(CharAt(s, k)))
    ELSE [n |-> n, v |-> v]

\* sscanf(value, "%d", dst): white space, an optional sign, decimal digits.
\* ret is sscanf's return value: 1, 0 on a matching failure, -1 (EOF) on an
\* input that ends before the first conversion.
SscanfInt(value) ==
    LET b == CHOOSE k \in 0..Len(value) :
                 /\ \A m \in 0..(k - 1) : CharAt(value, m) = " "
                 /\ CharAt(value, k) # " "
        signed == CharAt(value, b) \in {"-", "+"}
        d == ScanDigits(value, IF signed THEN b + 1 ELSE b, 0, 0)
    IN  IF CharAt(value, b) = NUL THEN [ret |-> -1, v |-> 0]
        ELSE IF d.n = 0 THEN [ret |-> 0, v |-> 0]
        ELSE [ret |-> 1, v |-> IF CharAt(value, b) = "-" THEN 0 - d.v ELSE d.v]

FmtS == <<"%", "s">>
FmtB == <<"%", "b">>
FmtD == <<"%", "d">>
FmtEmpty == <<>>

\* the strings "%b" takes for true
Truthy == {<<"t", "r", "u", "e">>, <<"y", "e", "s">>, <<"1">>, <<"o", "n">>}

\* what the destination object holds: nothing written yet, a const char *,
\* a bool or an int
NoDst == [kind |-> "none", s |-> <<>>, b |-> FALSE, n |-> 0]
StrDst(s) == [kind |-> "str", s |-> s, b |-> FALSE, n |-> 0]
BoolDst(b) == [kind |-> "bool", s |-> <<>>, b |-> b, n |-> 0]
IntDst(n) == [kind |-> "int", s |-> <<>>, b |-> FALSE, n |-> n]

\* a variant of SgetMiss: no test of scan_fmt against NULL
SgetMiss_no_null_fmt_test(R, name, idx) ==
    LET p == shop__find(R, name)
    IN  \/ p = 0
        \/ ~R.options.items[p].used
        \/ ~R.options.items[p].take_arg
        \/ CharAt(R.options.items[p].scan_fmt, 0) = NUL
        \/ idx >= R.options.items[p].len

\* the early "return false" of shop_sget
SgetMiss(R, name, idx) ==
    LET p == shop__find(R, name)
    IN  \/ p = 0
        \/ ~R.options.items[p].used
        \/ ~R.options.items[p].take_arg
        \/ R.options.items[p].scan_fmt = NULLP
        \/ CharAt(R.options.items[p].scan_fmt, 0) = NUL
        \/ idx >= R.options.items[p].len

\* a variant of shop_sget: "%b" returns the boolean it read
shop_sget_returns_bool(R, name, idx, d) ==
    IF SgetMiss(R, name, idx) THEN [ret |-> FALSE, dst |-> d]
    ELSE LET opt == R.options.items[shop__find(R, name)]
             value == opt.items[idx + 1]
         IN  IF opt.scan_fmt = FmtS THEN [ret |-> TRUE, dst |-> StrDst(value)]
             ELSE IF opt.scan_fmt = FmtB
                  THEN [ret |-> value \in Truthy, dst |-> BoolDst(value \in Truthy)]
             ELSE LET r == SscanfInt(value)
                  IN  IF r.ret # 1 THEN [ret |-> FALSE, dst |-> d]
                      ELSE [ret |-> TRUE, dst |-> IntDst(r.v)]

\* shop_sget(name, idx, dst) with *dst holding d: [ret, dst]
shop_sget(R, name, idx, d) ==
    IF SgetMiss(R, name, idx) THEN [ret |-> FALSE, dst |-> d]
    ELSE LET opt == R.options.items[shop__find(R, name)]
             value == opt.items[idx + 1]
         IN  IF opt.scan_fmt = FmtS THEN [ret |-> TRUE, dst |-> StrDst(value)]
             ELSE IF opt.scan_fmt = FmtB
                  THEN [ret |-> TRUE, dst |-> BoolDst(value \in Truthy)]
             \* any other format goes to sscanf; of those, the callers here use "%d"
             ELSE LET r == SscanfInt(value)
                  IN  IF r.ret # 1 THEN [ret |-> FALSE, dst |-> d]
                      ELSE [ret |-> TRUE, dst |-> IntDst(r.v)]

----------------------------------------------------------------------------
(* Inputs *)

\* argv[0]
Prog == <<"p">>

\* option strings: of option names, ':' and ' ', every ':' right after an
\* option name, spaces only between the first and the last character
ValidSpec(s) ==
    /\ Len(s) >= 1
    /\ s[1] # " " /\ s[Len(s)] # " "
    /\ \A k \in 1..Len(s) : s[k] = ":" => (k > 1 /\ s[k - 1] \in NameChars)

SpecStrs == {s \in SeqsUpTo(SpecChars, MaxSpecLen) : ValidSpec(s)}

NameCount(s) == Cardinality({k \in 1..Len(s) : s[k] \in NameChars})

\* argv entries: a '-' followed by a run of characters (options, or an
\* option and its attached value), the empty entry, or a plain word
Words == {<<>>, <<"1">>, <<"o", "n">>}
OptEntries == {<<"-">> \o r : r \in SeqsUpTo(NameChars, MaxRun)}
Entries == OptEntries \cup Words
Argvs == {<<Prog>> \o a : a \in SeqsUpTo(Entries, MaxArgs)}

\* command lines of a '-' entry, the entry after it and the entry after that
ValueLines == {<<Prog, e, v, t>> : e \in OptEntries, v \in Entries, t \in Entries}

\* command lines in the manner of the header's EXAMPLE and example.c:
\* ./main -o, -on 1, -n1 -non, -o 1, -o1, -n
CommandLines ==
    {<<Prog, <<"-", "o">>>>,
     <<Prog, <<"-", "o", "n">>, <<"1">>>>,
     <<Prog, <<"-", "n", "1">>, <<"-", "n", "o", "n">>>>,
     <<Prog, <<"-", "o">>, <<"1">>>>,
     <<Prog, <<"-", "o", "1">>>>,
     <<Prog, <<"-", "n">>>>}

\* The allocator: how many realloc calls of one shop_set or shop_track
\* succeed before one fails.  A call makes at most one per descriptor list
\* and value list it starts, so with this many none fails.
Plenty == MaxOptions

\* scan formats and help texts given to shop_desc
Fmts == {NULLP, FmtEmpty, FmtS, FmtB, FmtD}
Infos == {<<"h">>}

----------------------------------------------------------------------------
(* The program: a caller of the API *)

\* the registry as the functions see it
Reg == [options |-> options, map |-> map]

\* values collected over all descriptors
RECURSIVE TotalValues(_)
TotalValues(items) ==
    IF items = <<>> THEN 0 ELSE Len(Head(items).items) + TotalValues(Tail(items))

\* the record of an API call: the function, its arguments and what it
\* returned; for shop_free, how many descriptors and values it released; for
\* shop_set, whether the call before it was shop_free, and what that released;
\* for shop_set and shop_track, the realloc calls that could succeed
Call(op, name, idx, str, ret) ==
    [op |-> op, name |-> name, idx |-> idx, str |-> str, ret |-> ret, mem |-> 0,
     after_free |-> (op = "set" /\ call.op = "free"),
     released |-> IF op = "free" THEN Len(options.items) + TotalValues(options.items)
                  ELSE IF op = "set" /\ call.op = "free" THEN call.released
                  ELSE 0]
NoCall == [op |-> "none", name |-> NUL, idx |-> 0, str |-> <<>>, ret |-> 0, mem |-> 0,
           after_free |-> FALSE, released |-> 0]

\* the realloc calls a call makes when none fails, given what it leaves of Plenty
Reallocs(R) == Plenty - R.mem

\* the supplies that make one of the asked realloc calls fail
Short(asked) == 0..(asked - 1)

FeIdle == [active |-> FALSE, name |-> NUL, idx |-> 0, done |-> FALSE]

\* straight-line code of the caller: the process runs and is not inside a
\* shop_foreach loop
Ready == status = "running" /\ ~fe.active

Init ==
    /\ options = EmptyRegistry.options
    /\ map = EmptyRegistry.map
    /\ status = "running"
    /\ diag = NoDiag
    /\ argv \in CommandLines
    /\ call = NoCall
    /\ dst = NoDst
    /\ fe = FeIdle
    /\ runs = <<>>

\* shop_set(s) with mem realloc calls that succeed: fewer than the call
\* asks for, or enough
CallSet(s) ==
    /\ Ready
    /\ Len(options.items) + NameCount(s) <= MaxOptions
    /\ \E full \in {shop_set(WithMem(Reg, Plenty), s)} :
           \E mem \in Short(Reallocs(full)) \cup {Plenty} :
               /\ \E R \in {IF mem = Plenty THEN full ELSE shop_set(WithMem(Reg, mem), s)} :
                      /\ options' = R.options
                      /\ map' = R.map
                      /\ status' = IF R.oom THEN "exited" ELSE status
                      /\ diag' = IF R.oom THEN OomDiag ELSE diag
               /\ call' = [Call("set", NUL, 0, s, 0) EXCEPT !.mem = mem]
    /\ fe' = FeIdle
    /\ dst' = NoDst
    /\ UNCHANGED <<argv, runs>>

\* the program's first shop_set, or its first after shop_free
CallSetFirst(s) ==
    /\ options.items = <<>>
    /\ CallSet(s)

CallFree ==
    /\ Ready
    /\ \E R \in {shop_free(Reg)} :
           options' = R.options /\ map' = R.map
    /\ call' = Call("free", NUL, 0, <<>>, 0)
    /\ fe' = FeIdle
    /\ dst' = NoDst
    /\ UNCHANGED <<status, diag, argv, runs>>

CallDesc(name, scan_fmt, info) ==
    /\ Ready
    /\ IF shop__find(Reg, name) = 0
       THEN /\ status' \in NullDeref
            /\ UNCHANGED <<options, map>>
       ELSE /\ \E R \in {shop_desc(Reg, name, scan_fmt, info)} :
                   options' = R.options /\ map' = R.map
            /\ UNCHANGED status
    /\ call' = Call("desc", name, 0, scan_fmt, 0)
    /\ fe' = FeIdle
    /\ dst' = NoDst
    /\ UNCHANGED <<diag, argv, runs>>

\* shop_track(argc, argv) with mem realloc calls that succeed: fewer than the
\* call asks for, or enough
CallTrack ==
    /\ Ready
    /\ \E full \in {shop_track(WithMem(Reg, Plenty), argv)} :
           \E mem \in Short(Reallocs(full.R)) \cup {Plenty} :
               /\ \E r \in {IF mem = Plenty THEN full ELSE shop_track(WithMem(Reg, mem), argv)} :
                      /\ TotalValues(r.R.options.items) <= MaxValues
                      /\ options' = r.R.options
                      /\ map' = r.R.map
                      /\ status' = r.status
                      /\ diag' = r.diag
               /\ call' = [Call("track", NUL, 0, <<>>, 0) EXCEPT !.mem = mem]
    /\ fe' = FeIdle
    /\ dst' = NoDst
    /\ UNCHANGED <<argv, runs>>

CallUse(name) ==
    /\ Ready
    /\ call' = Call("use", name, 0, <<>>, shop_use(Reg, name))
    /\ fe' = FeIdle
    /\ dst' = NoDst
    /\ UNCHANGED <<options, map, status, diag, argv, runs>>

CallLen(name) ==
    /\ Ready
    /\ IF shop__find(Reg, name) = 0
       THEN /\ status' \in NullDeref
            /\ call' = Call("len", name, 0, <<>>, 0)
       ELSE /\ call' = Call("len", name, 0, <<>>, shop_len(Reg, name))
            /\ UNCHANGED status
    /\ fe' = FeIdle
    /\ dst' = NoDst
    /\ UNCHANGED <<options, map, diag, argv, runs>>

\* C's bool as the int it converts to
Bool(b) == IF b THEN 1 ELSE 0

CallSget(name, idx) ==
    /\ Ready
    /\ \E r \in {shop_sget(Reg, name, idx, dst)} :
           /\ dst' = r.dst
           /\ call' = Call("sget", name, idx, <<>>, Bool(r.ret))
    /\ fe' = FeIdle
    /\ UNCHANGED <<options, map, status, diag, argv, runs>>

\* shop_foreach(name, idx, dst): "size_t idx = 0"
ForeachBegin(name) ==
    /\ Ready
    /\ fe' = [active |-> TRUE, name |-> name, idx |-> 0, done |-> FALSE]
    /\ call' = Call("foreach", name, 0, <<>>, 0)
    /\ UNCHANGED <<options, map, status, diag, argv, dst, runs>>

\* shop_foreach: the condition shop_sget(name, idx, dst), then the (empty)
\* body and idx++, or the end of the loop
ForeachStep ==
    /\ status = "running" /\ fe.active
    /\ \E r \in {shop_sget(Reg, fe.name, fe.idx, dst)} :
           /\ dst' = r.dst
           /\ call' = Call("sget", fe.name, fe.idx, <<>>, Bool(r.ret))
           /\ fe' = IF r.ret THEN [fe EXCEPT !.idx = @ + 1]
                    ELSE [fe EXCEPT !.active = FALSE, !.done = TRUE]
    /\ UNCHANGED <<options, map, status, diag, argv, runs>>

Next ==
    \/ \E s \in SpecStrs : CallSet(s)
    \/ \E name \in NameChars, f \in Fmts, info \in Infos : CallDesc(name, f, info)
    \/ CallTrack
    \/ \E name \in NameChars : CallUse(name)
    \/ \E name \in NameChars : CallLen(name)
    \/ \E name \in NameChars, idx \in 0..MaxIdx : CallSget(name, idx)
    \/ \E name \in NameChars : ForeachBegin(name)
    \/ ForeachStep
    \/ CallFree

Spec == Init /\ [][Next]_vars

----------------------------------------------------------------------------
(* Properties of the registry and the accessors, under Spec *)

\* the descriptor shop__find gives for a registered name
Found(name) == options.items[map[name]]
Registered(name) == \E p \in 1..Len(options.items) : options.items[p].name = name

\* positions (1-based) of the option names in an option string, in order
NamePositions(s) == {k \in 1..Len(s) : s[k] \in NameChars}
RECURSIVE NthName(_, _, _)
NthName(s, n, from) ==
    IF s[from] \in NameChars
    THEN (IF n = 1 THEN from ELSE NthName(s, n - 1, from + 1))
    ELSE NthName(s, n, from + 1)

\* C3: after shop_set(s) has returned, the k-th option name of s is the k-th
\* descriptor the call appended, and it takes an argument exactly when the
\* character right after it in s is ':' (spaces change nothing).
C3_TakeArgIffColonFollows ==
    (call.op = "set" /\ status = "running") =>
        LET s == call.str
            base == Len(options.items) - NameCount(s)
        IN  \A k \in 1..NameCount(s) :
                LET at == NthName(s, k, 1)
                    opt == options.items[base + k]
                IN  /\ opt.name = s[at]
                    /\ opt.take_arg = (CharAt(s, at) = ":")

\* the cases in which C4 says shop_sget gives nothing
SoftMiss(name, idx) ==
    \/ ~Registered(name)
    \/ /\ Registered(name)
       /\ \/ ~Found(name).used
          \/ ~Found(name).take_arg
          \/ Found(name).scan_fmt = NULLP
          \/ Found(name).scan_fmt = FmtEmpty
          \/ idx >= Len(Found(name).items)

\* C4: a shop_sget call for a name that is not registered, an option never
\* used, a flag-only option, an option without scan format or with the empty
\* one, or an index past the collected values returns false, leaves the
\* destination as it was, changes nothing in the registry and does not end
\* the process.
C4_SgetSoftMiss ==
    [][(call'.op = "sget" /\ SoftMiss(call'.name, call'.idx))
        => /\ call'.ret = 0
           /\ dst' = dst
           /\ options' = options /\ map' = map
           /\ status' = "running" /\ diag' = diag]_vars

\* a miss by index on an option that has values, with a destination that
\* holds an earlier value
C4_Witness ==
    /\ call.op = "sget" /\ call.ret = 0
    /\ Registered(call.name) /\ Found(call.name).items # <<>>
    /\ Found(call.name).scan_fmt = FmtS
    /\ call.idx >= Len(Found(call.name).items)
    /\ dst.kind = "str"

\* C7: shop_desc with a name that is not registered writes a diagnostic, ends
\* the process through exit(EXIT_FAILURE) and changes no descriptor.
C7_DescUnknownIsFatal ==
    [][(call'.op = "desc" /\ ~Registered(call'.name))
        => /\ status' = "exited"
           /\ diag'.msg # ""
           /\ options' = options]_vars

\* C8: shop_set(s) right after shop_free leaves what shop_set(s) leaves in a
\* program that has called nothing before (given the same memory): only the
\* options of s, none used, none with values, format or description, and a
\* lookup table that finds no other name.
C8_FreeThenSetIsFresh ==
    (call.op = "set" /\ call.after_free) =>
        LET s == call.str
        IN  \A F \in {shop_set(WithMem(EmptyRegistry, call.mem), s)} :
            /\ options = F.options /\ map = F.map
            /\ (status = "exited") = F.oom
            /\ status = "running" => Len(options.items) = NameCount(s)
            /\ \A p \in 1..Len(options.items) :
                   LET opt == options.items[p]
                   IN  /\ \E k \in NamePositions(s) : s[k] = opt.name
                       /\ ~opt.used /\ opt.items = <<>> /\ opt.len = 0 /\ opt.cap = 0
                       /\ opt.scan_fmt = NULLP /\ opt.info = NULLP
            /\ \A c \in AllChars :
                   map[c] # 0 => \E k \in NamePositions(s) : s[k] = c

\* shop_free released two descriptors and a value, and the shop_set after it
\* registered one option
C8_Witness ==
    /\ call.op = "set" /\ call.after_free
    /\ call.released >= 3
    /\ NameCount(call.str) = 1
    /\ Len(options.items) = 1

\* C9: a descriptor with values is used and takes an argument.
C9_ValuesOnlyOnUsedArgOptions ==
    \A p \in 1..Len(options.items) :
        options.items[p].items # <<>>
            => (options.items[p].used /\ options.items[p].take_arg)

\* a flag-only option was used in the entry that gave another option its value
C9_Witness ==
    \E p, q \in 1..Len(options.items) :
        /\ options.items[p].items # <<>>
        /\ options.items[q].used /\ ~options.items[q].take_arg
        /\ call.op = "track"

----------------------------------------------------------------------------
(* shop_foreach, under Spec *)

\* a value "%d" converts: after white space, an optional sign and a digit
ConvertsInt(v) ==
    \E b \in 1..Len(v) :
        /\ \A m \in 1..(b - 1) : v[m] = " "
        /\ \/ v[b] \in Digits
           \/ v[b] \in {"-", "+"} /\ b < Len(v) /\ v[b + 1] \in Digits

\* a value the registered format converts
Converts(fmt, v) ==
    IF fmt \in {NULLP, FmtEmpty} THEN FALSE
    ELSE IF fmt \in {FmtS, FmtB} THEN TRUE
    ELSE ConvertsInt(v)

\* C6 as claimed: the finished shop_foreach loop over a registered option has
\* yielded as many values as shop_len reports.
C6_ForeachYieldsLen ==
    (fe.done /\ Registered(fe.name)) => fe.idx = shop_len(Reg, fe.name)

\* C6 as amended: the loop over a registered option X never passes
\* shop_len(X), every iteration either yields the next value and advances the
\* index by one or ends the loop (so it ends within shop_len(X) + 1 calls),
\* the values it yielded are the first ones, each converted by X's format,
\* and it ends at the first value the format does not convert or after the
\* last one; with "%s" or "%b" that is after all shop_len(X) values.
C6_ForeachYieldsConvertiblePrefix ==
    /\ [](((fe.active \/ fe.done) /\ Registered(fe.name)) =>
            LET opt == Found(fe.name)
                n == shop_len(Reg, fe.name)
            IN  /\ fe.idx <= n
                /\ \A k \in 1..fe.idx : Converts(opt.scan_fmt, opt.items[k])
                /\ fe.done =>
                      \/ fe.idx = n
                      \/ ~Converts(opt.scan_fmt, opt.items[fe.idx + 1])
                /\ (fe.done /\ opt.scan_fmt \in {FmtS, FmtB}) => fe.idx = n)
    /\ [][fe.active =>
            \/ fe'.active /\ fe'.idx = fe.idx + 1 /\ fe'.name = fe.name
            \/ fe'.done /\ ~fe'.active /\ fe'.idx = fe.idx /\ fe'.name = fe.name]_vars

\* a loop with "%b" that has gone through two values, the second not a truthy one
C6_Witness ==
    /\ fe.done /\ Registered(fe.name)
    /\ Found(fe.name).scan_fmt = FmtB
    /\ fe.idx = 2 /\ shop_len(Reg, fe.name) = 2
    /\ dst = BoolDst(FALSE)

----------------------------------------------------------------------------
(* shop_track on every command line, under SpecTrack *)

\* the program, started with one of the command lines avs, has registered
\* its options: shop_set has returned
InitAfterSet(avs) ==
    /\ \E s \in SpecStrs :
          /\ NameCount(s) <= MaxOptions
          /\ LET R == shop_set(WithMem(EmptyRegistry, Plenty), s)
             IN  options = R.options /\ map = R.map
          /\ call = [NoCall EXCEPT !.op = "set", !.str = s, !.mem = Plenty]
    /\ status = "running"
    /\ diag = NoDiag
    /\ argv \in avs
    /\ dst = NoDst
    /\ fe = FeIdle
    /\ runs = <<>>

InitTrack == InitAfterSet(Argvs)

NextTrack == CallTrack

SpecTrack == InitTrack /\ [][NextTrack]_vars

\* how the registry classifies a character
IsFlag(c) == Registered(c) /\ ~Found(c).take_arg
IsArg(c) == Registered(c) /\ Found(c).take_arg

\* an entry that begins with '-'
IsOpt(e) == Len(e) >= 1 /\ e[1] = "-"

\* in a '-' entry, the position (1-based) of the first character after the
\* '-' that is not a flag-only option; one past the end when there is none
OptEnd(e) ==
    LET stops == {j \in 2..Len(e) : ~IsFlag(e[j])}
    IN  IF stops = {} THEN Len(e) + 1
        ELSE CHOOSE j \in stops : \A m \in stops : j <= m

\* the '-' entry names a character that is not registered
NamesUnknown(e) == OptEnd(e) <= Len(e) /\ ~Registered(e[OptEnd(e)])
\* the '-' entry ends with an argument-taking option: its value is the next entry
TakesNext(e) == OptEnd(e) = Len(e) /\ IsArg(e[OptEnd(e)])
\* the '-' entry holds an argument-taking option and its value
HasAttached(e) == OptEnd(e) < Len(e) /\ IsArg(e[OptEnd(e)])

\* entry i of av (av[1] is the program name) is the value of the entry before it
RECURSIVE IsValue(_, _)
IsValue(av, i) ==
    /\ i > 2
    /\ IsOpt(av[i - 1]) /\ TakesNext(av[i - 1])
    /\ ~IsValue(av, i - 1)

\* entry i of av is read for option names
IsScanned(av, i) == i >= 2 /\ IsOpt(av[i]) /\ ~IsValue(av, i)

\* entry i of av is one of the two fatal cases of C5
Fatal(av, i) ==
    /\ IsScanned(av, i)
    /\ \/ NamesUnknown(av[i])
       \/ TakesNext(av[i]) /\ i = Len(av)

FatalEntries(av) == {i \in 2..Len(av) : Fatal(av, i)}

ExpectExit(av) == FatalEntries(av) # {}

\* C5 as claimed: shop_track ends the process, by exit after a diagnostic,
\* exactly when a scanned '-' entry names an unregistered character at or
\* before its first argument-taking option, or ends with an argument-taking
\* option and is the last entry of argv; otherwise it returns.
C5_TrackExitsExactlyOnUnknownOrMissing ==
    call.op = "track" =>
        /\ status \in {"running", "exited"}
        /\ (status = "exited") <=> ExpectExit(argv)
        /\ (status = "exited") <=> (diag.msg # "")

\* the values av supplies to option X from entry i on, in order
RECURSIVE SuppliedFrom(_, _, _)
SuppliedFrom(av, X, i) ==
    IF i > Len(av) THEN <<>>
    ELSE LET e == av[i]
         IN  IF ~IsScanned(av, i) THEN SuppliedFrom(av, X, i + 1)
             ELSE IF HasAttached(e) /\ e[OptEnd(e)] = X
                  THEN <<SubSeq(e, OptEnd(e) + 1, Len(e))>> \o SuppliedFrom(av, X, i + 1)
             ELSE IF TakesNext(e) /\ e[OptEnd(e)] = X /\ i < Len(av)
                  THEN <<av[i + 1]>> \o SuppliedFrom(av, X, i + 1)
             ELSE SuppliedFrom(av, X, i + 1)

Supplied(av, X) == SuppliedFrom(av, X, 2)

\* av up to, not including, its first fatal entry
UntilFatal(av) ==
    LET F == FatalEntries(av)
    IN  IF F = {} THEN av
        ELSE SubSeq(av, 1, (CHOOSE i \in F : \A m \in F : i <= m) - 1)

\* the options whose value list shop_track has to start for av: those without
\* a value yet that av supplies one to before its first fatal entry
Starts(av) ==
    LET cut == UntilFatal(av)
    IN  {X \in NameChars : IsArg(X) /\ Found(X).items = <<>> /\ Supplied(cut, X) # <<>>}

\* C5 as amended: shop_track ends the process, by exit after a diagnostic,
\* in exactly three cases: the two of the claim, each with its own message,
\* and "out of memory" when the allocator fails on one of the value lists
\* the command line makes it start; in every other case it returns.
C5_TrackExitsOnUnknownMissingOrNoMemory ==
    [][call'.op = "track" =>
        \A oom \in {call'.mem < Cardinality(Starts(argv))}, fatal \in {ExpectExit(argv)} :
            /\ status' \in {"running", "exited"}
            /\ (status' = "exited") <=> (fatal \/ oom)
            /\ (diag'.msg = MsgOom) <=> oom
            /\ (diag'.msg \in {MsgUnknown, MsgNoArg}) <=> (fatal /\ ~oom)
            /\ (diag'.msg = "") <=> (status' = "running")]_vars

\* shop_track ended the process for lack of memory on a command line with a
\* lone '-', an empty entry or a plain word and neither fatal case of the claim
C5_Witness ==
    /\ call.op = "track" /\ status = "exited"
    /\ diag.msg = MsgOom
    /\ ~ExpectExit(argv)
    /\ \E i \in 2..Len(argv) : argv[i] \in {<<"-">>, <<>>, <<"1">>}

\* C2: when shop_track returns, the values of every argument-taking option X
\* are those it had before followed by the values argv supplies to X, in
\* argv's order and as the raw strings; shop_len(X) counts them, and once
\* "%s" is X's format shop_sget(X, i) gives the i-th of them unchanged.
C2_ValuesInOrderOfAppearance ==
    [][(call'.op = "track" /\ status' = "running") =>
        \A X \in NameChars :
            IsArg(X) =>
                \A vals \in {Found(X).items \o Supplied(argv, X)},
                   R2 \in {shop_desc(Reg', X, FmtS, <<"h">>)} :
                    /\ options'.items[map'[X]].items = vals
                    /\ shop_len(Reg', X) = Len(vals)
                    /\ \A i \in 0..(Len(vals) - 1) :
                           shop_sget(R2, X, i, NoDst) = [ret |-> TRUE, dst |-> StrDst(vals[i + 1])]
                    /\ ~shop_sget(R2, X, Len(vals), NoDst).ret]_vars

\* one option got two different values from one command line
C2_Witness ==
    /\ call.op = "track" /\ status = "running"
    /\ \E X \in NameChars :
          /\ IsArg(X)
          /\ Len(Found(X).items) = 2
          /\ Found(X).items[1] # Found(X).items[2]
          /\ Found(X).items = Supplied(argv, X)

\* av with entry i replaced by e
Replace(av, i, e) == [av EXCEPT ![i] = e]

\* a plain word: it names no option wherever it stands
PlainWord == <<"1">>

\* the value lists agree but for the one value of the descriptor at position p
SameButValue(itemsA, itemsB, p, vA, vB) ==
    /\ Len(itemsA) = Len(itemsB)
    /\ \A q \in 1..Len(itemsA) :
          /\ Len(itemsA[q].items) = Len(itemsB[q].items)
          /\ [itemsA[q] EXCEPT !.items = <<>>] = [itemsB[q] EXCEPT !.items = <<>>]
          /\ \A k \in 1..Len(itemsA[q].items) :
                \/ itemsA[q].items[k] = itemsB[q].items[k]
                \/ /\ q = p
                   /\ itemsA[q].items[k] = vA
                   /\ itemsB[q].items[k] = vB

----------------------------------------------------------------------------
(* The entry after a pending option and the entry after that, under SpecValue *)

InitValue == InitAfterSet(ValueLines)

NextValue == CallTrack

SpecValue == InitValue /\ [][NextValue]_vars

\* the options a '-' entry marks used when it is read for option names: its
\* registered characters up to and including the first argument-taking one
UsedBy(e) ==
    IF ~IsOpt(e) THEN {}
    ELSE {e[j] : j \in {k \in 2..Len(e) : k <= OptEnd(e) /\ Registered(e[k])}}

\* the value an entry read for option names gives option Y itself
AttachedTo(e, Y) ==
    IF IsOpt(e) /\ HasAttached(e) /\ e[OptEnd(e)] = Y
    THEN <<SubSeq(e, OptEnd(e) + 1, Len(e))>>
    ELSE <<>>

\* what shop_track writes when the last entry of argv, read for option
\* names, ends the process; NoDiag when it does not
LastEntryDiag(t) ==
    IF IsOpt(t) /\ NamesUnknown(t) THEN [msg |-> MsgUnknown, arg |-> <<t[OptEnd(t)]>>]
    ELSE IF IsOpt(t) /\ TakesNext(t) THEN [msg |-> MsgNoArg, arg |-> t]
    ELSE NoDiag

\* s is an initial part of t
IsPrefix(s, t) == Len(s) <= Len(t) /\ s = SubSeq(t, 1, Len(s))

\* C10: the entry after a scanned '-' entry that ends with an argument-taking
\* option X is stored as a value of X and is not read for option names, and
\* reading goes on with the entry after it.
\* (1) shop_track ends in the same way, marks the same options used and
\* collects the same values as for the command line with a plain word in that
\* place (given the same memory), but for that one value of X.
\* (2) On a command line <<e, v, t>> whose e ends with X: X's values become
\* those it had, then v as it stands, then the value t attaches to X; every
\* other option gets only the value t attaches to it; the options used are
\* those used before, those of e and those of t, none because of v; and
\* shop_track exits exactly when t, read for option names as the last entry,
\* names an unregistered character or ends with an argument-taking option,
\* with the diagnostic for t.  When the allocator fails instead, the values
\* stored are an initial part of those and no other option is used.
C10_NextEntryIsValueNotOptions ==
    [][call'.op = "track" =>
        /\ \A i \in 2..(Len(argv) - 1) :
              (IsScanned(argv, i) /\ TakesNext(argv[i])) =>
                  \A X \in {argv[i][OptEnd(argv[i])]},
                     alt \in {shop_track(WithMem(Reg, call'.mem), Replace(argv, i + 1, PlainWord))} :
                      /\ status' = alt.status
                      /\ diag' = alt.diag
                      /\ map' = alt.R.map
                      /\ options'.cap = alt.R.options.cap
                      /\ options'.len = alt.R.options.len
                      /\ SameButValue(options'.items, alt.R.options.items,
                                      map[X], argv[i + 1], PlainWord)
                      /\ status' = "running" =>
                            \E k \in 1..Len(options'.items[map[X]].items) :
                                options'.items[map[X]].items[k] = argv[i + 1]
        /\ (Len(argv) = 4 /\ TakesNext(argv[2])) =>
              \A X \in {argv[2][Len(argv[2])]}, v \in {argv[3]}, t \in {argv[4]} :
                  /\ map' = map
                  /\ Len(options'.items) = Len(options.items)
                  /\ \A Y \in NameChars :
                        Registered(Y) =>
                            \A new \in {options'.items[map[Y]]},
                               vals \in {Found(Y).items
                                           \o (IF Y = X THEN <<v>> ELSE <<>>)
                                           \o AttachedTo(t, Y)} :
                                /\ [new EXCEPT !.items = <<>>, !.len = 0, !.cap = 0, !.used = FALSE]
                                     = [Found(Y) EXCEPT !.items = <<>>, !.len = 0, !.cap = 0, !.used = FALSE]
                                /\ diag'.msg # MsgOom =>
                                      /\ new.items = vals
                                      /\ new.len = Len(vals)
                                      /\ new.used = (Found(Y).used \/ Y \in UsedBy(argv[2]) \cup UsedBy(t))
                                /\ diag'.msg = MsgOom =>
                                      /\ IsPrefix(new.items, vals)
                                      /\ new.used => (Found(Y).used \/ Y \in UsedBy(argv[2]) \cup UsedBy(t))
                  /\ diag'.msg # MsgOom =>
                        /\ diag' = LastEntryDiag(t)
                        /\ (status' = "exited") <=> (LastEntryDiag(t) # NoDiag)
                  /\ diag'.msg = MsgOom => (status' = "exited" /\ call'.mem < Plenty)
                  /\ call'.mem = Plenty => diag'.msg # MsgOom]_vars

\* the value was an entry that names a registered option, which stayed
\* unused, and the entry after it was read for option names: it gave the same
\* option a second value
C10_Witness ==
    /\ call.op = "track" /\ status = "running"
    /\ Len(argv) = 4 /\ TakesNext(argv[2])
    /\ IsOpt(argv[3]) /\ Len(argv[3]) = 2
    /\ Registered(argv[3][2])
    /\ ~Found(argv[3][2]).used
    /\ HasAttached(argv[4])
    /\ Found(argv[2][Len(argv[2])]).items = <<argv[3]>> \o AttachedTo(argv[4], argv[2][Len(argv[2])])
    /\ Found(argv[2][Len(argv[2])]).len = 2

----------------------------------------------------------------------------
(* The three ways to write one option group, under SpecForms *)

\* non-empty values: a number, a word, text that begins with '-', an option name
Values == {<<"1">>, <<"o", "n">>, <<"-", "n">>, <<"n">>}

\* the group written with every option in an entry of its own: -F1 ... -Fk -A V
Separated(F, A, V) ==
    <<Prog>> \o [k \in 1..Len(F) |-> <<"-", F[k]>>] \o <<<<"-", A>>, V>>

SeparatedForms ==
    {Separated(F, A, V) : F \in SeqsUpTo(NameChars, MaxFlags), A \in NameChars, V \in Values}

\* of a separated command line: F1..Fk, A and V
FlagsOf(av) == [k \in 1..(Len(av) - 3) |-> av[k + 1][2]]
ArgOptOf(av) == av[Len(av) - 1][2]
ValueOf(av) == av[Len(av)]

\* the same group as -F1..FkA V and as -F1..FkAV
Combined(av) == <<Prog, <<"-">> \o FlagsOf(av) \o <<ArgOptOf(av)>>, ValueOf(av)>>
Attached(av) == <<Prog, <<"-">> \o FlagsOf(av) \o <<ArgOptOf(av)>> \o ValueOf(av)>>

Form(k, av) == IF k = 1 THEN av ELSE IF k = 2 THEN Combined(av) ELSE Attached(av)

NoRun == [R |-> EmptyRegistry, status |-> "none", diag |-> NoDiag, mem |-> 0]

InitForms ==
    /\ options = EmptyRegistry.options
    /\ map = EmptyRegistry.map
    /\ status = "running"
    /\ diag = NoDiag
    /\ argv \in SeparatedForms
    /\ call = NoCall
    /\ dst = NoDst
    /\ fe = FeIdle
    /\ runs = [k \in 1..3 |-> NoRun]

\* the registry has every Fi as a flag-only option and A as an argument-taking one
GroupApplies(av) ==
    /\ \A k \in 1..Len(FlagsOf(av)) : IsFlag(FlagsOf(av)[k])
    /\ IsArg(ArgOptOf(av))

\* the program started with form k of the command line: shop_track on the
\* registry shop_set built, with mem realloc calls that succeed
RunForm(k) ==
    /\ Ready
    /\ call.op = "set"
    /\ GroupApplies(argv)
    /\ runs[k] = NoRun
    /\ \E full \in {shop_track(WithMem(Reg, Plenty), Form(k, argv))} :
           \E mem \in Short(Reallocs(full.R)) \cup {Plenty} :
               \E r \in {IF mem = Plenty THEN full ELSE shop_track(WithMem(Reg, mem), Form(k, argv))} :
                   runs' = [runs EXCEPT ![k] =
                               [R |-> r.R, status |-> r.status, diag |-> r.diag, mem |-> mem]]
    /\ UNCHANGED <<options, map, status, diag, argv, call, dst, fe>>

NextForms ==
    \/ \E s \in SpecStrs : CallSetFirst(s)
    \/ \E k \in 1..3 : RunForm(k)

SpecForms == InitForms /\ [][NextForms]_vars

\* C1: on a registry built by shop_set, with F1..Fk flag-only, A
\* argument-taking and V not empty, shop_track leaves the same registry for
\* -F1 ... -Fk -A V, for -F1..FkA V and for -F1..FkAV (given the same
\* memory), and it returns unless the allocator fails on A's value list.
C1_ThreeFormsSameRegistry ==
    \A j, k \in 1..3 :
        (runs[j] # NoRun /\ runs[k] # NoRun /\ runs[j].mem = runs[k].mem) =>
            /\ runs[j].R = runs[k].R
            /\ runs[j].status = runs[k].status
            /\ runs[j].diag = runs[k].diag
            /\ (runs[j].status = "running") <=> (runs[j].mem >= 1)

\* all three forms of a group with two flags were run, and the value, which
\* begins with '-', is with A
C1_Witness ==
    /\ \A k \in 1..3 : runs[k] # NoRun /\ runs[k].mem = Plenty
    /\ Len(FlagsOf(argv)) = 2
    /\ ValueOf(argv) = <<"-", "n">>
    /\ runs[3].R.options.items[map[ArgOptOf(argv)]].items = <<ValueOf(argv)>>
    /\ \A k \in 1..2 : runs[3].R.options.items[map[FlagsOf(argv)[k]]].used

====
